---- MODULE Spec2Model ----
(***************************************************************************)
(* Model of src/live_transcription.py: the control thread (main,           *)
(* LiveTranscriber.start_recording / stop_recording), the daemon worker    *)
(* thread (LiveTranscriber.transcription_worker) and the capture thread    *)
(* that runs LiveTranscriber.audio_callback, interleaved statement by      *)
(* statement.  The recognizer, the audio device and the file system are    *)
(* external: their outcomes are nondeterministic choices.                  *)
(*                                                                         *)
(* Not modelled: the normal exit of the loop of line 140 (nothing clears   *)
(* is_recording while the control thread sleeps there, so the loop is left *)
(* only by an exception), a KeyboardInterrupt outside the try block of     *)
(* lines 127-141, a failing Thread.start() and a failing open()/write().   *)
(***************************************************************************)
EXTENDS Integers, Sequences, FiniteSets, TLC

\* ---------------------------------------------------------------- bounds
\* number of frames the capture thread delivers in one run
MaxFrames == 3
\* longest hypothesis the recognizer returns (in characters)
MaxTextLen == 2

\* characters of a hypothesis: one whitespace and one non-whitespace
Chars == {" ", "a"}

RECURSIVE SeqsUpTo(_)
SeqsUpTo(n) ==
    IF n = 0 THEN {<<>>}
    ELSE LET shorter == SeqsUpTo(n - 1)
         IN  shorter \cup {Append(s, c) : s \in {t \in shorter : Len(t) = n - 1}, c \in Chars}

\* every value result.text can take
Texts == SeqsUpTo(MaxTextLen)

\* the frames, named by arrival order
FrameIds == 1..MaxFrames

\* value of lastShown before display_transcription has ever run
NotShown == <<"none">>

\* the history counter getsAfterStop stops counting here
MaxGetsCounted == 2

\* value of exitCode while the process runs
NotExited == -1

\* value of audio_chunk while the worker holds no frame
NoFrame == 0

VARIABLES
    mpc,            \* control thread: statement it executes next
    wpc,            \* worker thread: statement it executes next
    is_recording,   \* self.is_recording
    current_text,   \* self.current_text
    audio_queue,    \* self.audio_queue, oldest frame first
    audio_chunk,    \* worker local: the frame returned by get
    result,         \* worker local: result.text
    session,        \* the transcribe_stream context: "none", "open", "released"
    stream,         \* the sd.InputStream: "none", "open", "closed"
    checked,        \* the value line 158 tested
    files,          \* body of each transcript file written
    setupError,     \* "none", "model" (from_pretrained raised), "device" (InputStream raised)
    pushed,         \* history: frames put by audio_callback, in order
    submitted,      \* history: frames passed to add_audio, in order
    failed,         \* history: frames for which add_audio raised
    lastShown,      \* history: current_text at the last display_transcription
    nRenders,       \* history: number of display_transcription calls
    getsAfterStop,  \* history: queue.get calls completed after line 152
    exitCode,       \* exit status of the process, NotExited while it runs
    joined,         \* history: how join of line 155 returned: "no", "ended", "timeout"
    afterStop       \* history: what the worker did after line 152

vars == <<mpc, wpc, is_recording, current_text, audio_queue, audio_chunk, result,
          session, stream, checked, files, setupError, pushed, submitted, failed,
          lastShown, nRenders, getsAfterStop, exitCode, joined, afterStop>>

ctlVars  == <<mpc, is_recording, stream, checked, files, setupError, exitCode, joined>>
wrkVars  == <<wpc, audio_chunk, result, session, submitted, failed>>
histShow == <<lastShown, nRenders>>

\* ------------------------------------------------------------ pure parts
\* str.strip(): drop leading and trailing whitespace
RECURSIVE LStrip(_)
LStrip(s) == IF s # <<>> /\ Head(s) = " " THEN LStrip(Tail(s)) ELSE s

RECURSIVE RStrip(_)
RStrip(s) == IF s # <<>> /\ s[Len(s)] = " " THEN RStrip(SubSeq(s, 1, Len(s) - 1)) ELSE s

Strip(s) == RStrip(LStrip(s))

\* truth value of a str in an if
Truthy(s) == Len(s) > 0

\* the test of line 158 (and of line 100)
HasTextMutant(s) == Truthy(s)
HasText(s) == Truthy(Strip(s))

\* line 35: queue.Queue() has maxsize 0, so put never finds the queue full
QueueHasRoomMutant(q) == Len(q) < 2
QueueHasRoom(q) == TRUE

\* queue.Queue.put: append at the tail
QueuePutMutant(q, f) == IF Len(q) >= 2 THEN q ELSE Append(q, f)
QueuePut(q, f) == Append(q, f)

\* queue.Queue.get: the item returned, and the queue it leaves
QueueFrontMutant(q) == q[Len(q)]
QueueFront(q) == Head(q)
QueueRestMutant(q) == IF Len(q) > 1 THEN Tail(Tail(q)) ELSE Tail(q)
QueueRest(q) == Tail(q)

\* worker positions in which the thread is alive
WorkerAlive == {"enter", "loop", "get", "add", "cmp", "display", "exit"}
\* worker positions in which the thread has ended
WorkerEnded == {"done", "dead", "killed"}

\* control positions inside stop_recording after line 152 has run
AfterStopFlag == {"join", "check", "write", "ended", "exited"}

\* display_transcription: draws the snapshot of self.current_text
display_transcription ==
    /\ lastShown' = current_text
    /\ nRenders' = nRenders + 1

\* ------------------------------------------------------------------ Init
Init ==
    /\ mpc = "init"
    /\ wpc = "idle"
    /\ is_recording = FALSE
    /\ current_text = <<>>
    /\ audio_queue = <<>>
    /\ audio_chunk = NoFrame
    /\ result = <<>>
    /\ session = "none"
    /\ stream = "none"
    /\ checked = <<>>
    /\ files = <<>>
    /\ setupError = "none"
    /\ pushed = <<>>
    /\ submitted = <<>>
    /\ failed = {}
    /\ lastShown = NotShown
    /\ nRenders = 0
    /\ getsAfterStop = 0
    /\ exitCode = NotExited
    /\ joined = "no"
    /\ afterStop = [submits |-> 0, changes |-> 0, renders |-> 0]

\* -------------------------------------------------------- capture thread
\* audio_callback: copy the buffer and put it on the queue
audio_callback ==
    /\ stream = "open"
    /\ Len(pushed) < MaxFrames
    /\ QueueHasRoom(audio_queue)
    /\ LET frame == Len(pushed) + 1
       IN  /\ audio_queue' = QueuePut(audio_queue, frame)
           /\ pushed' = Append(pushed, frame)
    /\ UNCHANGED <<ctlVars, wrkVars, histShow, current_text, getsAfterStop, afterStop>>

\* --------------------------------------------------------- worker thread
\* line 57: transcribe_stream(...).__enter__ returns the session
WorkerEnter ==
    /\ wpc = "enter"
    /\ session' = "open"
    /\ wpc' = "loop"
    /\ UNCHANGED <<ctlVars, histShow, current_text, audio_queue, pushed,
                   audio_chunk, result, submitted, failed, getsAfterStop, afterStop>>

\* line 57: transcribe_stream(...) raises; the thread dies without a session
WorkerEnterFail ==
    /\ wpc = "enter"
    /\ wpc' = "dead"
    /\ UNCHANGED <<ctlVars, histShow, current_text, audio_queue, pushed,
                   audio_chunk, result, session, submitted, failed, getsAfterStop, afterStop>>

\* line 63: while self.is_recording
WorkerLoopMutant ==
    /\ wpc = "loop"
    /\ wpc' = "get"
    /\ UNCHANGED <<ctlVars, histShow, current_text, audio_queue, pushed,
                   audio_chunk, result, session, submitted, failed, getsAfterStop, afterStop>>
WorkerLoop ==
    /\ wpc = "loop"
    /\ wpc' = IF is_recording THEN "get" ELSE "exit"
    /\ UNCHANGED <<ctlVars, histShow, current_text, audio_queue, pushed,
                   audio_chunk, result, session, submitted, failed, getsAfterStop, afterStop>>

\* the get of line 66 counts as after the stop when line 152 has run
CountGet ==
    IF mpc \in AfterStopFlag /\ getsAfterStop < MaxGetsCounted
    THEN getsAfterStop + 1
    ELSE getsAfterStop

\* afterStop with one more event of the kind, when line 152 has run
CountAfterStop(kind) ==
    IF mpc \in AfterStopFlag THEN [afterStop EXCEPT ![kind] = @ + 1] ELSE afterStop

\* line 66: get returns the oldest frame
WorkerGet ==
    /\ wpc = "get"
    /\ audio_queue # <<>>
    /\ audio_chunk' = QueueFront(audio_queue)
    /\ audio_queue' = QueueRest(audio_queue)
    /\ getsAfterStop' = CountGet
    /\ wpc' = "add"
    /\ UNCHANGED <<ctlVars, histShow, current_text, pushed, result, session,
                   submitted, failed, afterStop>>

\* lines 66, 82-83: get times out on the empty queue, queue.Empty, continue
WorkerGetTimeout ==
    /\ wpc = "get"
    /\ audio_queue = <<>>
    /\ getsAfterStop' = CountGet
    /\ wpc' = "loop"
    /\ UNCHANGED <<ctlVars, histShow, current_text, audio_queue, pushed,
                   audio_chunk, result, session, submitted, failed, afterStop>>

\* lines 69-75: add_audio succeeds and result.text is read
WorkerAdd ==
    /\ wpc = "add"
    /\ submitted' = Append(submitted, audio_chunk)
    /\ audio_chunk' = NoFrame
    /\ \E text \in Texts : result' = text
    /\ wpc' = "cmp"
    /\ afterStop' = CountAfterStop("submits")
    /\ UNCHANGED <<ctlVars, histShow, current_text, audio_queue, pushed,
                   session, failed, getsAfterStop>>

\* lines 72, 84-86: add_audio raises, the error is printed, continue
WorkerAddRaisesMutant ==
    /\ wpc = "add"
    /\ submitted' = Append(submitted, audio_chunk)
    /\ failed' = failed \cup {audio_chunk}
    /\ audio_chunk' = NoFrame
    /\ wpc' = "exit"
    /\ afterStop' = CountAfterStop("submits")
    /\ UNCHANGED <<ctlVars, histShow, current_text, audio_queue, pushed,
                   result, session, getsAfterStop>>
WorkerAddRaisesStops ==
    /\ wpc = "add"
    /\ submitted' = Append(submitted, audio_chunk)
    /\ failed' = failed \cup {audio_chunk}
    /\ audio_chunk' = NoFrame
    /\ wpc' = "loop"
    /\ is_recording' = FALSE
    /\ afterStop' = CountAfterStop("submits")
    /\ UNCHANGED <<mpc, stream, checked, files, setupError, exitCode, joined,
                   histShow, current_text, audio_queue, pushed,
                   result, session, getsAfterStop>>
WorkerAddRaisesRequeue ==
    /\ wpc = "add"
    /\ submitted' = Append(submitted, audio_chunk)
    /\ failed' = failed \cup {audio_chunk}
    /\ audio_queue' = Append(audio_queue, audio_chunk)
    /\ audio_chunk' = NoFrame
    /\ wpc' = "loop"
    /\ afterStop' = CountAfterStop("submits")
    /\ UNCHANGED <<ctlVars, histShow, current_text, pushed,
                   result, session, getsAfterStop>>
WorkerAddRaises ==
    /\ wpc = "add"
    /\ submitted' = Append(submitted, audio_chunk)
    /\ failed' = failed \cup {audio_chunk}
    /\ audio_chunk' = NoFrame
    /\ wpc' = "loop"
    /\ afterStop' = CountAfterStop("submits")
    /\ UNCHANGED <<ctlVars, histShow, current_text, audio_queue, pushed,
                   result, session, getsAfterStop>>

\* lines 78-79: compare with self.current_text and store the new text
WorkerCompare ==
    /\ wpc = "cmp"
    /\ IF result # current_text
       THEN /\ current_text' = result
            /\ afterStop' = CountAfterStop("changes")
            /\ wpc' = "display"
       ELSE /\ current_text' = current_text
            /\ afterStop' = afterStop
            /\ wpc' = "loop"
    /\ result' = <<>>
    /\ UNCHANGED <<ctlVars, histShow, audio_queue, pushed, audio_chunk,
                   session, submitted, failed, getsAfterStop>>

\* line 80: self.display_transcription()
WorkerDisplay ==
    /\ wpc = "display"
    /\ display_transcription
    /\ afterStop' = CountAfterStop("renders")
    /\ wpc' = "loop"
    /\ UNCHANGED <<ctlVars, current_text, audio_queue, pushed, audio_chunk,
                   result, session, submitted, failed, getsAfterStop>>

\* line 61: the with block ends and releases the session; the thread returns
WorkerExitMutant ==
    /\ wpc = "exit"
    /\ session' = session
    /\ wpc' = "done"
    /\ UNCHANGED <<ctlVars, histShow, current_text, audio_queue, pushed,
                   audio_chunk, result, submitted, failed, getsAfterStop, afterStop>>
WorkerExit ==
    /\ wpc = "exit"
    /\ session' = "released"
    /\ wpc' = "done"
    /\ UNCHANGED <<ctlVars, histShow, current_text, audio_queue, pushed,
                   audio_chunk, result, submitted, failed, getsAfterStop, afterStop>>

transcription_worker ==
    \/ WorkerEnter
    \/ WorkerEnterFail
    \/ WorkerLoop
    \/ WorkerGet
    \/ WorkerGetTimeout
    \/ WorkerAdd
    \/ WorkerAddRaises
    \/ WorkerCompare
    \/ WorkerDisplay
    \/ WorkerExit

\* -------------------------------------------------------- control thread
\* lines 185-188, 29: LiveTranscriber() loads the model
MainConstruct ==
    /\ mpc = "init"
    /\ mpc' = "start"
    /\ UNCHANGED <<wrkVars, histShow, is_recording, current_text, audio_queue,
                   stream, checked, files, setupError, pushed, getsAfterStop, afterStop,
                   exitCode, joined>>

\* lines 193-199: main has no sys.exit and lets no exception out, so the
\* interpreter ends with status 0
ReturnStatus == 0

\* lines 29, 193-195: from_pretrained raises, main prints the failure and returns
MainConstructFail ==
    /\ mpc = "init"
    /\ setupError' = "model"
    /\ mpc' = "failed"
    /\ exitCode' = ReturnStatus
    /\ UNCHANGED <<wrkVars, histShow, is_recording, current_text, audio_queue,
                   stream, checked, files, pushed, getsAfterStop, afterStop,
                   joined>>

\* line 120: self.is_recording = True
StartSetFlag ==
    /\ mpc = "start"
    /\ is_recording' = TRUE
    /\ mpc' = "thread"
    /\ UNCHANGED <<wrkVars, histShow, current_text, audio_queue, stream,
                   checked, files, setupError, pushed, getsAfterStop, afterStop,
                   exitCode, joined>>

\* lines 123-125: create and start the daemon worker thread
StartThread ==
    /\ mpc = "thread"
    /\ wpc' = "enter"
    /\ mpc' = "open"
    /\ UNCHANGED <<histShow, is_recording, current_text, audio_queue, stream,
                   checked, files, setupError, pushed, audio_chunk, result,
                   session, submitted, failed, getsAfterStop, afterStop,
                   exitCode, joined>>

\* lines 129-135: sd.InputStream(...) opens and starts the stream
StartOpenStream ==
    /\ mpc = "open"
    /\ stream' = "open"
    /\ mpc' = "display"
    /\ UNCHANGED <<wrkVars, histShow, is_recording, current_text, audio_queue,
                   checked, files, setupError, pushed, getsAfterStop, afterStop,
                   exitCode, joined>>

\* lines 129, 145-148: sd.InputStream(...) raises, except Exception prints it
\* and the finally clause runs stop_recording
StartOpenStreamFail ==
    /\ mpc = "open"
    /\ setupError' = "device"
    /\ mpc' = "stop"
    /\ UNCHANGED <<wrkVars, histShow, is_recording, current_text, audio_queue,
                   stream, checked, files, pushed, getsAfterStop, afterStop,
                   exitCode, joined>>

\* lines 136-137: the initial display_transcription()
StartDisplay ==
    /\ mpc = "display"
    /\ display_transcription
    /\ mpc' = "sleep"
    /\ UNCHANGED <<wrkVars, is_recording, current_text, audio_queue, stream,
                   checked, files, setupError, pushed, getsAfterStop, afterStop,
                   exitCode, joined>>

\* lines 127-148: KeyboardInterrupt inside the try block; the with block
\* closes the stream on the way out, then the finally clause runs stop_recording
KeyboardInterruptMutant ==
    /\ mpc \in {"open", "display", "sleep"}
    /\ stream' = stream
    /\ mpc' = "stop"
    /\ UNCHANGED <<wrkVars, histShow, is_recording, current_text, audio_queue,
                   checked, files, setupError, pushed, getsAfterStop, afterStop,
                   exitCode, joined>>
KeyboardInterrupt ==
    /\ mpc \in {"open", "display", "sleep"}
    /\ stream' = IF stream = "open" THEN "closed" ELSE stream
    /\ mpc' = "stop"
    /\ UNCHANGED <<wrkVars, histShow, is_recording, current_text, audio_queue,
                   checked, files, setupError, pushed, getsAfterStop, afterStop,
                   exitCode, joined>>

\* line 152: self.is_recording = False
StopClearFlagMutant ==
    /\ mpc = "stop"
    /\ is_recording' = is_recording
    /\ mpc' = "join"
    /\ UNCHANGED <<wrkVars, histShow, current_text, audio_queue, stream,
                   checked, files, setupError, pushed, getsAfterStop, afterStop,
                   exitCode, joined>>
StopClearFlag ==
    /\ mpc = "stop"
    /\ is_recording' = FALSE
    /\ mpc' = "join"
    /\ UNCHANGED <<wrkVars, histShow, current_text, audio_queue, stream,
                   checked, files, setupError, pushed, getsAfterStop, afterStop,
                   exitCode, joined>>

\* lines 154-155: join returns because the worker thread has ended
StopJoin ==
    /\ mpc = "join"
    /\ wpc \in WorkerEnded
    /\ mpc' = "check"
    /\ joined' = "ended"
    /\ UNCHANGED <<wrkVars, histShow, is_recording, current_text, audio_queue,
                   stream, checked, files, setupError, pushed, getsAfterStop, afterStop,
                   exitCode>>

\* lines 154-155: join(timeout=2.0) returns while the worker is still alive
StopJoinTimeoutMutant ==
    /\ mpc = "join"
    /\ FALSE
    /\ UNCHANGED vars
StopJoinTimeout ==
    /\ mpc = "join"
    /\ wpc \in WorkerAlive
    /\ mpc' = "check"
    /\ joined' = "timeout"
    /\ UNCHANGED <<wrkVars, histShow, is_recording, current_text, audio_queue,
                   stream, checked, files, setupError, pushed, getsAfterStop, afterStop,
                   exitCode>>

\* line 158: if self.current_text.strip()
StopCheck ==
    /\ mpc = "check"
    /\ checked' = current_text
    /\ mpc' = IF HasText(current_text) THEN "write" ELSE "ended"
    /\ UNCHANGED <<wrkVars, histShow, is_recording, current_text, audio_queue,
                   stream, files, setupError, pushed, getsAfterStop, afterStop,
                   exitCode, joined>>

\* lines 159-167: write the header and self.current_text to a new file
StopWrite ==
    /\ mpc = "write"
    /\ files' = Append(files, current_text)
    /\ mpc' = "ended"
    /\ UNCHANGED <<wrkVars, histShow, is_recording, current_text, audio_queue,
                   stream, checked, setupError, pushed, getsAfterStop, afterStop,
                   exitCode, joined>>

\* lines 169, 191-199, 124: "Session ended", main returns, the process exits
\* and takes the daemon worker thread with it
MainReturn ==
    /\ mpc = "ended"
    /\ mpc' = "exited"
    /\ wpc' = IF wpc \in WorkerAlive THEN "killed" ELSE wpc
    /\ exitCode' = ReturnStatus
    /\ UNCHANGED <<histShow, is_recording, current_text, audio_queue, stream,
                   checked, files, setupError, pushed, audio_chunk, result,
                   session, submitted, failed, getsAfterStop, afterStop,
                   joined>>

start_recording ==
    \/ StartSetFlag
    \/ StartThread
    \/ StartOpenStream
    \/ StartOpenStreamFail
    \/ StartDisplay
    \/ KeyboardInterrupt

stop_recording ==
    \/ StopClearFlag
    \/ StopJoin
    \/ StopJoinTimeout
    \/ StopCheck
    \/ StopWrite

main ==
    \/ MainConstruct
    \/ MainConstructFail
    \/ start_recording
    \/ stop_recording
    \/ MainReturn

Next ==
    \/ audio_callback
    \/ transcription_worker
    \/ main

Spec == Init /\ [][Next]_vars

\* the worker thread is scheduled fairly; the control thread and the capture
\* thread may stop anywhere
FairWorker == Spec /\ WF_vars(transcription_worker)

\* the control thread is scheduled fairly once it is inside stop_recording;
\* the worker thread may stop anywhere
FairControl == Spec /\ WF_vars(stop_recording \/ MainReturn)

\* ---------------------------------------------------------------- claims
InQueue(f) == \E k \in 1..Len(audio_queue) : audio_queue[k] = f
Submitted(f) == \E k \in 1..Len(submitted) : submitted[k] = f
NoDuplicates(s) == \A j, k \in 1..Len(s) : j # k => s[j] # s[k]
HasNonSpace(s) == \E k \in 1..Len(s) : s[k] # " "

\* C1: the frames passed to add_audio (whether it returns or raises) are at
\* every moment a prefix of the frames put by audio_callback.
C1_FifoPrefix ==
    /\ Len(submitted) <= Len(pushed)
    /\ \A k \in 1..Len(submitted) : submitted[k] = pushed[k]

C1_Witness ==
    /\ Len(submitted) >= 2
    /\ failed # {}
    /\ audio_queue # <<>>

C3_RenderOnlyOnChange == [][nRenders' # nRenders => lastShown' # lastShown]_vars

C5_WorkerStops ==
    /\ [](getsAfterStop <= 1)
    /\ (mpc \in AfterStopFlag /\ wpc \in WorkerAlive) ~> (wpc \in WorkerEnded)

C5_Witness ==
    /\ getsAfterStop = 1
    /\ wpc = "done"

\* C6: once stop_recording has started, the control thread reaches its end
\* (and returns) whether or not the worker thread ever ends.
C6_ShutdownCompletes == (mpc = "stop") ~> (mpc = "exited")

C6_Witness ==
    /\ mpc = "exited"
    /\ wpc = "killed"

\* C7 as stated: at the end of stop_recording a file exists exactly when the
\* transcript it tested is a non-empty string.
C7_Original ==
    mpc \in {"ended", "exited"} => (Len(files) = 1 <=> checked # <<>>)

\* C7 amended: at the end of stop_recording a file exists exactly when the
\* transcript it tested has a non-whitespace character; no file exists before
\* the test and never more than one.
C7_FileIffText ==
    /\ Len(files) <= 1
    /\ mpc \notin {"write", "ended", "exited"} => files = <<>>
    /\ mpc \in {"ended", "exited"} => (Len(files) = 1 <=> HasNonSpace(checked))

C7_Witness ==
    /\ mpc = "exited"
    /\ checked = <<" ">>
    /\ files = <<>>

\* C8: the body of the file is the transcript the test of line 158 saw and
\* stays equal to current_text from the write on.
C8_FileIsFinalText ==
    files # <<>> => (files[1] = checked /\ files[1] = current_text)

\* the session state of the spec, read off is_recording and the control thread
SessionState ==
    IF is_recording THEN "Recording"
    ELSE IF mpc \in {"init", "start", "failed"} THEN "Idle"
    ELSE "Stopped"

\* C9: the session state only moves Idle -> Recording -> Stopped, and it is
\* Stopped from line 152 on.
C9_OneRecordingPeriod ==
    /\ [][SessionState' # SessionState =>
            <<SessionState, SessionState'>> \in
                {<<"Idle", "Recording">>, <<"Recording", "Stopped">>}]_vars
    /\ [](mpc \in AfterStopFlag => SessionState = "Stopped")

C9_Witness ==
    /\ mpc = "exited"
    /\ SessionState = "Stopped"
    /\ submitted # <<>>

\* C10: after a setup failure (model or audio device) the error has reached
\* main, the session never entered Recording, no worker thread was started
\* and stop_recording does not run.
C10_SetupFailFast ==
    setupError # "none" =>
        /\ mpc = "failed"
        /\ wpc = "idle"
        /\ ~is_recording
        /\ files = <<>>

\* C11: when the process has ended, its exit status is 0 exactly when there
\* was no setup failure (model load or audio device).
C11_ExitCode ==
    exitCode # NotExited => (exitCode = 0 <=> setupError = "none")

\* C12 as stated: the flag is cleared before the stream is closed, and the
\* recognizer session is released before the transcript is persisted.
C12_Original ==
    /\ [][(stream = "open" /\ stream' = "closed") => ~is_recording]_vars
    /\ [](files # <<>> => session = "released")

\* C12 amended: the stream is closed (if it was opened) before the flag is
\* cleared, the flag is cleared before join returns, join returns before the
\* transcript is persisted, and when join returned because the worker had
\* ended the worker holds no recognizer session.
C12_ShutdownOrder ==
    /\ [][(is_recording /\ ~is_recording') => stream # "open"]_vars
    /\ [](mpc \in AfterStopFlag => stream # "open")
    /\ [][joined' # joined => ~is_recording]_vars
    /\ []((mpc = "write" \/ files # <<>>) => joined # "no")
    /\ [](joined = "ended" => session # "open")

C12_Witness ==
    /\ files # <<>>
    /\ stream = "closed"
    /\ joined = "timeout"
    /\ session = "open"

\* C13: whenever the session is Recording and the worker thread has been
\* started, the worker thread is alive.
C13_OneWorker ==
    (is_recording /\ wpc # "idle") => wpc \in WorkerAlive

\* C14: the recognizer session is acquired once and released once, a worker
\* that returned has released it, a worker that died acquiring it holds none,
\* and add_audio is only called on the open session.
C14_SessionScoped ==
    /\ []((wpc = "done" => session = "released") /\ (wpc = "dead" => session = "none"))
    /\ [][session' # session =>
            \/ (session = "none" /\ session' = "open")
            \/ (session = "open" /\ session' = "released")]_vars
    /\ [][submitted' # submitted => session = "open"]_vars

C14_Witness ==
    /\ wpc = "done"
    /\ session = "released"
    /\ submitted # <<>>

\* C15: while the stream is open audio_callback can always run (as long as
\* the capture thread has frames left), whatever the queue holds and
\* whatever the worker does, and it appends its frame without touching the
\* worker.
C15_PushAlwaysSucceeds ==
    /\ []((stream = "open" /\ Len(pushed) < MaxFrames) => ENABLED audio_callback)
    /\ [][pushed' # pushed =>
            /\ audio_queue' = Append(audio_queue, pushed'[Len(pushed')])
            /\ wpc' = wpc
            /\ audio_chunk' = audio_chunk]_vars

C15_Witness ==
    /\ stream = "open"
    /\ Len(audio_queue) >= 2
    /\ wpc = "dead"

\* C16: current_text changes only in steps of the worker thread and
\* is_recording only in steps of the control thread.
C16_SingleWriters ==
    [][/\ current_text' # current_text => transcription_worker
       /\ is_recording' # is_recording => main
       /\ audio_callback => (current_text' = current_text /\ is_recording' = is_recording)
       /\ transcription_worker => is_recording' = is_recording
       /\ main => current_text' = current_text]_vars

C16_Witness ==
    /\ current_text # <<>>
    /\ mpc \in AfterStopFlag
    /\ ~is_recording

\* C17: the worker thread is started only after the capture stream has been
\* opened, and the initial snapshot is drawn only after the worker thread
\* has been started.
C17_StartOrder ==
    /\ wpc # "idle" => stream # "none"
    /\ mpc = "sleep" => wpc # "idle"

\* C18: when add_audio raises, the frame is gone from the queue and from the
\* worker, current_text is unchanged and display_transcription does not run.
C18_ErrorIsSilent ==
    [][failed' # failed =>
         /\ audio_queue' = audio_queue
         /\ audio_chunk' = NoFrame
         /\ \A k \in 1..Len(audio_queue') : audio_queue'[k] \notin failed'
         /\ current_text' = current_text
         /\ lastShown' = lastShown
         /\ nRenders' = nRenders
         /\ wpc' \notin {"cmp", "display"}]_vars

C18_Witness ==
    /\ failed # {}
    /\ current_text # <<>>
    /\ nRenders >= 1
    /\ wpc = "loop"

\* the frame the worker holds between get and add_audio
InFlight == IF audio_chunk = NoFrame THEN <<>> ELSE <<audio_chunk>>

\* C19: the frames pushed are the frames submitted, then the frame in
\* flight (at most one), then the frames on the queue; a get that times out
\* leaves the queue as it was.
C19_FrameConservation ==
    /\ [](pushed = submitted \o InFlight \o audio_queue)
    /\ [](Len(pushed) = Len(submitted) + Len(InFlight) + Len(audio_queue))
    /\ [][(wpc = "get" /\ wpc' = "loop") => audio_queue' = audio_queue]_vars

C19_Witness ==
    /\ audio_chunk # NoFrame
    /\ audio_queue # <<>>
    /\ submitted # <<>>

\* C20: after line 152 the worker passes at most one more frame to
\* add_audio, changes current_text at most once and calls
\* display_transcription at most once; the queue no longer changes unless
\* the worker is at its get.
C20_AtMostOneMore ==
    /\ [](afterStop.submits <= 1 /\ afterStop.changes <= 1 /\ afterStop.renders <= 1)
    /\ [][(mpc \in AfterStopFlag /\ wpc # "get") => audio_queue' = audio_queue]_vars

C20_Witness ==
    /\ afterStop = [submits |-> 1, changes |-> 1, renders |-> 1]
    /\ audio_queue # <<>>
    /\ wpc = "done"

====
